---- MODULE Spec2Model ----
(***************************************************************************)
(* Model of utoipa-gen's documentation comment extractor                   *)
(* (utoipa-gen/src/doc_comment.rs) and of the request parameter clause     *)
(* parser (utoipa-gen/src/path/parameter.rs).                              *)
(*                                                                         *)
(* A Rust String is modelled as a sequence of one-character strings, so    *)
(* that trimming, replacing and draining are computed character by         *)
(* character as the standard library does.                                 *)
(***************************************************************************)
EXTENDS Integers, Sequences, FiniteSets, TLC

VARIABLES
    attributes,     \* doc extractor: the attribute slice handed to from_attributes
    comments,       \* doc extractor: outcome of from_attributes
    formatted,      \* doc extractor: outcome of as_formatted_string / is_empty
    path_str,       \* include evaluation: argument of evaluate_include_str
    manifest_dir,   \* process environment: CARGO_MANIFEST_DIR
    included,       \* include evaluation: outcome of evaluate_include_str
    clause,         \* clause parser: the clause as written (name part, attributes, commas)
    input,          \* clause parser: the token stream handed to parse
    parsed,         \* clause parser: the syn::Result returned by parse
    parameter,      \* clause parser: the Parameter value, once there is one
    rendered        \* clause parser: the calls emitted by to_tokens

vars == <<attributes, comments, formatted, path_str, manifest_dir, included,
          clause, input, parsed, parameter, rendered>>

(***************************************************************************)
(* Bounds                                                                  *)
(***************************************************************************)
MaxIndent == 2      \* leading spaces put in front of a literal doc line
MaxLines == 3       \* attributes handed to from_attributes
MaxFrag == 3        \* characters of the path fragment of an include expression
MaxAttrs == 3       \* attributes of a clause with the canonical name part
MaxNameAttrs == 2   \* attributes of a clause with any other name part

(***************************************************************************)
(* Strings                                                                 *)
(***************************************************************************)
Str0 == <<>>

RECURSIVE TrimEndBy(_, _)
TrimEndBy(s, cs) ==
    IF s # <<>> /\ s[Len(s)] \in cs THEN TrimEndBy(SubSeq(s, 1, Len(s) - 1), cs) ELSE s

RECURSIVE TrimStartBy(_, _)
TrimStartBy(s, cs) ==
    IF s # <<>> /\ Head(s) \in cs THEN TrimStartBy(Tail(s), cs) ELSE s

\* char::is_whitespace, restricted to the characters of the model
Whitespace == {" ", "\t", "\n", "\r"}

\* str::trim_end
trim_end(s) == TrimEndBy(s, Whitespace)

\* str::trim
trim(s) == TrimStartBy(TrimEndBy(s, Whitespace), Whitespace)

\* str::trim_matches with a character set
trim_matches(s, cs) == TrimStartBy(TrimEndBy(s, cs), cs)

\* str::trim_start_matches with one character
trim_start_matches(s, c) == TrimStartBy(s, {c})

\* str::contains with a string pattern
contains(s, pat) ==
    \E i \in 1..(Len(s) - Len(pat) + 1) : SubSeq(s, i, i + Len(pat) - 1) = pat

\* str::replace(pat, ""): every non-overlapping match, left to right
RECURSIVE replace(_, _)
replace(s, pat) ==
    IF Len(s) < Len(pat) THEN s
    ELSE IF SubSeq(s, 1, Len(pat)) = pat
         THEN replace(SubSeq(s, Len(pat) + 1, Len(s)), pat)
         ELSE <<Head(s)>> \o replace(Tail(s), pat)

\* String::drain(..n)
drain(s, n) == SubSeq(s, n + 1, Len(s))

\* all strings over alphabet cs of length at most n
RECURSIVE StringsUpTo(_, _)
StringsUpTo(cs, n) ==
    IF n = 0 THEN {<<>>}
    ELSE LET shorter == StringsUpTo(cs, n - 1)
         IN  shorter \cup {Append(s, c) : s \in shorter, c \in cs}

RECURSIVE SetMin(_)
SetMin(S) ==
    LET x == CHOOSE y \in S : TRUE
    IN  IF S = {x} THEN x
        ELSE LET m == SetMin(S \ {x}) IN IF x < m THEN x ELSE m

(***************************************************************************)
(* Environment and file system                                             *)
(***************************************************************************)
CARGO_MANIFEST_DIR ==
    <<"C","A","R","G","O","_","M","A","N","I","F","E","S","T","_","D","I","R">>

CONCAT_BANG == <<"c","o","n","c","a","t","!">>
ENV_BANG == <<"e","n","v","!">>
Quoted(s) == <<"\"">> \o s \o <<"\"">>
ENV_DQ == ENV_BANG \o <<"(">> \o Quoted(CARGO_MANIFEST_DIR) \o <<")">>
ENV_SQ == ENV_BANG \o <<"(", "'">> \o CARGO_MANIFEST_DIR \o <<"'", ")">>

\* the files that std::fs::read_to_string can read, with their contents
Files ==
    ( <<"/","r","/","a">>      :> <<" ","T","\n">> ) @@
    ( <<"/","a">>              :> <<"w">> ) @@
    ( <<"a">>                  :> <<" "," ","d">> )

\* std::fs::read_to_string
read_to_string(p) ==
    IF p \in DOMAIN Files
    THEN [tag |-> "Ok", val |-> Files[p], reads |-> <<p>>, msg |-> ""]
    ELSE [tag |-> "Panic", val |-> p, reads |-> <<p>>,
          msg |-> "Failed to read include_str! file"]

\* PathBuf::from(base).join(p) on a Unix target
PathJoin(base, p) ==
    IF p # <<>> /\ Head(p) = "/" THEN p
    ELSE IF base # <<>> /\ base[Len(base)] # "/" THEN base \o <<"/">> \o p
    ELSE base \o p

(***************************************************************************)
(* doc_comment.rs                                                          *)
(***************************************************************************)
DOC_ATTRIBUTE_TYPE == "doc"

\* faulty variant of manifest_dir_full_path: the leading separators are kept
manifest_dir_full_path_keep_sep(str, dir) ==
    LET processed_path ==
            replace(replace(replace(replace(str, CONCAT_BANG), ENV_DQ), ENV_SQ), <<",">>)
        relative_path ==
            trim_matches(trim(trim_matches(trim(processed_path), {"(", ")"})), {"\""})
    IN  PathJoin(dir, relative_path)

\* the path that evaluate_manifest_dir_path reads, given the variable's value
manifest_dir_full_path(str, dir) ==
    LET processed_path ==
            replace(replace(replace(replace(str, CONCAT_BANG), ENV_DQ), ENV_SQ), <<",">>)
        relative_path ==
            trim_matches(trim(trim_matches(trim(processed_path), {"(", ")"})), {"\""})
    IN  PathJoin(dir, trim_start_matches(relative_path, "/"))

evaluate_manifest_dir_path(str, env) ==
    IF ~env.set
    THEN [tag |-> "Panic", val |-> Str0, reads |-> <<>>,
          msg |-> "CARGO_MANIFEST_DIR not found in environment"]
    ELSE read_to_string(manifest_dir_full_path(str, env.val))

evaluate_include_str(str, env) ==
    LET p == trim_matches(trim(str), {"\""})
    IN  IF contains(p, CARGO_MANIFEST_DIR)
        THEN evaluate_manifest_dir_path(p, env)
        ELSE read_to_string(p)

\* faulty variant of extract_doc_value: the literal is stored untrimmed
extract_doc_value_untrimmed(name_value, env) ==
    IF name_value.expr = "Lit"
    THEN IF name_value.lit = "Str"
         THEN [tag |-> "Some", val |-> name_value.str]
         ELSE [tag |-> "None", val |-> Str0]
    ELSE IF name_value.expr = "Macro"
    THEN IF name_value.mac = "include_str"
         THEN LET r == evaluate_include_str(name_value.str, env)
              IN  IF r.tag = "Ok" THEN [tag |-> "Some", val |-> r.val]
                  ELSE [tag |-> "Panic", val |-> Str0]
         ELSE [tag |-> "None", val |-> Str0]
    ELSE [tag |-> "None", val |-> Str0]

\* Option<String>, or the panic raised while resolving an include
extract_doc_value(name_value, env) ==
    IF name_value.expr = "Lit"
    THEN IF name_value.lit = "Str"
         THEN [tag |-> "Some", val |-> trim_end(name_value.str)]
         ELSE [tag |-> "None", val |-> Str0]
    ELSE IF name_value.expr = "Macro"
    THEN IF name_value.mac = "include_str"
         THEN LET r == evaluate_include_str(name_value.str, env)
              IN  IF r.tag = "Ok" THEN [tag |-> "Some", val |-> r.val]
                  ELSE [tag |-> "Panic", val |-> Str0]
         ELSE [tag |-> "None", val |-> Str0]
    ELSE [tag |-> "None", val |-> Str0]

\* the closure of filter_map in from_attributes
doc_filter(attr, env) ==
    IF attr.path # DOC_ATTRIBUTE_TYPE THEN [tag |-> "None", val |-> Str0]
    ELSE IF attr.meta = "NameValue" THEN extract_doc_value(attr, env)
    ELSE [tag |-> "None", val |-> Str0]

RECURSIVE collect_docs(_, _)
collect_docs(attrs, env) ==
    IF attrs = <<>> THEN [tag |-> "Ok", docs |-> <<>>]
    ELSE LET d == doc_filter(Head(attrs), env)
         IN  IF d.tag = "Panic" THEN [tag |-> "Panic", docs |-> <<>>]
             ELSE LET r == collect_docs(Tail(attrs), env)
                  IN  IF r.tag = "Panic" THEN r
                      ELSE IF d.tag = "Some"
                           THEN [tag |-> "Ok", docs |-> <<d.val>> \o r.docs]
                           ELSE r

leading_spaces(s) == Len(s) - Len(trim_start_matches(s, " "))

\* faulty variant of min_indent: the empty lines are not filtered out
min_indent_all_lines(docs) ==
    LET widths == {leading_spaces(docs[i]) : i \in DOMAIN docs}
    IN  IF widths = {} THEN 0 ELSE SetMin(widths)

min_indent(docs) ==
    LET widths == {leading_spaces(docs[i]) : i \in {j \in DOMAIN docs : docs[j] # <<>>}}
    IN  IF widths = {} THEN 0 ELSE SetMin(widths)

strip_indent(docs) ==
    [i \in DOMAIN docs |->
        IF docs[i] # <<>> THEN drain(docs[i], min_indent(docs)) ELSE docs[i]]

from_attributes(attrs, env) ==
    LET r == collect_docs(attrs, env)
    IN  IF r.tag = "Panic" THEN r
        ELSE [tag |-> "Ok", docs |-> strip_indent(r.docs)]

is_empty(docs) == docs = <<>>

RECURSIVE as_formatted_string(_)
as_formatted_string(docs) ==
    IF docs = <<>> THEN <<>>
    ELSE IF Len(docs) = 1 THEN docs[1]
    ELSE docs[1] \o <<"\n">> \o as_formatted_string(Tail(docs))

(***************************************************************************)
(* path/parameter.rs                                                       *)
(***************************************************************************)
Tok(k, v) == [k |-> k, v |-> v]
LitStrTok(v) == Tok("LitStr", v)
LitBoolTok(v) == Tok("LitBool", v)
IdentTok(v) == Tok("Ident", v)
GroupTok(v) == Tok("Bracket", v)    \* [v], one token tree
EqTok == Tok("Eq", "=")
CommaTok == Tok("Comma", ",")

peek(ts, k) == ts # <<>> /\ Head(ts).k = k

NoneString == [some |-> FALSE, val |-> ""]
SomeString(v) == [some |-> TRUE, val |-> v]
NoneType == [some |-> FALSE, ty |-> "", is_array |-> FALSE, is_option |-> FALSE]
SomeType(ty, is_array, is_option) ==
    [some |-> TRUE, ty |-> ty, is_array |-> is_array, is_option |-> is_option]

\* impl Default for ParameterIn
ParameterIn_default == "Path"

\* #[derive(Default)] struct Parameter
Parameter_default ==
    [name |-> "", parameter_in |-> ParameterIn_default, deprecated |-> FALSE,
     description |-> NoneString, parameter_type |-> NoneType]

\* Parameter::new, ty being Type::new(parameter_type)
Parameter_new(name, ty, parameter_in) ==
    [Parameter_default EXCEPT !.name = name, !.parameter_type = ty,
                              !.parameter_in = parameter_in]

\* Parameter::update_parameter_type, ty being Type::new(ident)
update_parameter_type(self, ty) == [self EXCEPT !.parameter_type = ty]

\* impl FromStr for ParameterIn
ParameterIn_from_str(s) ==
    CASE s = "path" -> [ok |-> TRUE, val |-> "Path"]
      [] s = "query" -> [ok |-> TRUE, val |-> "Query"]
      [] s = "header" -> [ok |-> TRUE, val |-> "Header"]
      [] s = "cookie" -> [ok |-> TRUE, val |-> "Cookie"]
      [] OTHER -> [ok |-> FALSE, val |-> s]

ExpectedKeywords == <<"path", "query", "header", "cookie", "deprecated", "description">>

\* the position of parse: Ok carries on, Err is a returned syn::Error, Abort is
\* expect_or_abort / unwrap_or_abort ending the macro expansion
Ok(p, rest) ==
    [tag |-> "Ok", parameter |-> p, rest |-> rest, msg |-> "", ident |-> "",
     expected |-> <<>>]
Err(msg, ident, expected) ==
    [tag |-> "Err", parameter |-> Parameter_default, rest |-> <<>>, msg |-> msg,
     ident |-> ident, expected |-> expected]
Abort(msg) ==
    [tag |-> "Abort", parameter |-> Parameter_default, rest |-> <<>>, msg |-> msg,
     ident |-> "", expected |-> <<>>]

\* parse_utils::parse_next: the `=` before a value
parse_next(ts) ==
    IF peek(ts, "Eq") THEN [ok |-> TRUE, rest |-> Tail(ts)]
    ELSE [ok |-> FALSE, rest |-> ts]

\* parse_utils::parse_bool_or_true: `= <bool literal>` if it follows, true otherwise
parse_bool_or_true(ts) ==
    IF peek(ts, "Eq") /\ peek(Tail(ts), "LitBool")
    THEN [val |-> (ts[2].v = "true"), rest |-> Tail(Tail(ts))]
    ELSE [val |-> TRUE, rest |-> ts]

\* <Type as Parse>::parse: an identifier, or an identifier within brackets
parse_type(ts) ==
    IF peek(ts, "Ident")
    THEN [ok |-> TRUE, ty |-> SomeType(Head(ts).v, FALSE, FALSE), rest |-> Tail(ts)]
    ELSE IF peek(ts, "Bracket")
    THEN [ok |-> TRUE, ty |-> SomeType(Head(ts).v, TRUE, FALSE), rest |-> Tail(ts)]
    ELSE [ok |-> FALSE, ty |-> NoneType, rest |-> ts]

\* faulty variant of parse_name: the literal's value is not stored
parse_name_not_stored(ts) ==
    IF peek(ts, "LitStr")
    THEN LET rest == Tail(ts)
         IN  IF peek(rest, "Eq")
             THEN LET t == parse_type(parse_next(rest).rest)
                  IN  IF t.ok
                      THEN Ok([Parameter_default EXCEPT !.parameter_type = t.ty], t.rest)
                      ELSE Abort("unparseable parameter type expected: identifier or identifier within brackets")
             ELSE Ok(Parameter_default, rest)
    ELSE Err("unparseable parameter name, expected literal string", "", <<>>)

\* parse, the name part
parse_name(ts) ==
    IF peek(ts, "LitStr")
    THEN LET name == Head(ts).v
             rest == Tail(ts)
             p == [Parameter_default EXCEPT !.name = name]
         IN  IF peek(rest, "Eq")
             THEN LET t == parse_type(parse_next(rest).rest)
                  IN  IF t.ok
                      THEN Ok([p EXCEPT !.parameter_type = t.ty], t.rest)
                      ELSE Abort("unparseable parameter type expected: identifier or identifier within brackets")
             ELSE Ok(p, rest)
    ELSE Err("unparseable parameter name, expected literal string", "", <<>>)

\* faulty variant of parse_comma: the comma is consumed if present, not required
parse_comma_optional(p, ts) ==
    IF peek(ts, "Comma") THEN Ok(p, Tail(ts)) ELSE Ok(p, ts)

\* parse, the comma after the name part
parse_comma(p, ts) ==
    IF peek(ts, "Comma") THEN Ok(p, Tail(ts))
    ELSE Abort("expected comma after literal string")

\* faulty variant of attr_location: a location already set away from the default is kept
attr_location_first_wins(p, name, ts) ==
    IF p.parameter_in # ParameterIn_default THEN Ok(p, ts)
    ELSE LET r == ParameterIn_from_str(name)
         IN  IF r.ok THEN Ok([p EXCEPT !.parameter_in = r.val], ts)
             ELSE Abort("unexpected str")

\* the arm "path" | "query" | "header" | "cookie"
attr_location(p, name, ts) ==
    LET r == ParameterIn_from_str(name)
    IN  IF r.ok THEN Ok([p EXCEPT !.parameter_in = r.val], ts)
        ELSE Abort("unexpected str")

\* faulty variant of attr_deprecated: the flag is set, whatever value is given
attr_deprecated_always_true(p, ts) ==
    LET b == parse_bool_or_true(ts)
    IN  Ok([p EXCEPT !.deprecated = TRUE], b.rest)

\* the arm "deprecated"
attr_deprecated(p, ts) ==
    LET b == parse_bool_or_true(ts)
    IN  Ok([p EXCEPT !.deprecated = b.val], b.rest)

\* the arm "description"
attr_description(p, ts) ==
    LET n == parse_next(ts)
    IN  IF ~n.ok THEN Abort("expected equals token before value assignment")
        ELSE IF peek(n.rest, "LitStr")
        THEN Ok([p EXCEPT !.description = SomeString(Head(n.rest).v)], Tail(n.rest))
        ELSE Abort("unparseable description, expected literal string")

\* faulty variant of attr_unexpected: an unknown attribute is skipped
attr_unexpected_skipped(p, name, ts) == Ok(p, ts)

\* the arm _
attr_unexpected(p, name, ts) == Err("unexpected identifier", name, ExpectedKeywords)

\* faulty variant of consume_comma: no comma is consumed
consume_comma_never(ts) == ts

\* the comma consumed, if present, after an attribute
consume_comma(ts) == IF peek(ts, "Comma") THEN Tail(ts) ELSE ts

\* one iteration of the loop, up to the end of the match
parse_attribute(p, ts) ==
    IF ~peek(ts, "Ident") THEN Abort("unparseable Parameter, expected identifier")
    ELSE LET name == Head(ts).v
             rest == Tail(ts)
         IN  IF name \in {"path", "query", "header", "cookie"}
             THEN attr_location(p, name, rest)
             ELSE IF name = "deprecated" THEN attr_deprecated(p, rest)
             ELSE IF name = "description" THEN attr_description(p, rest)
             ELSE attr_unexpected(p, name, rest)

\* the loop of parse
RECURSIVE parse_attributes(_, _)
parse_attributes(p, ts) ==
    LET a == parse_attribute(p, ts)
    IN  IF a.tag # "Ok" THEN a
        ELSE LET rest == consume_comma(a.rest)
             IN  IF rest = <<>> THEN Ok(a.parameter, rest)
                 ELSE parse_attributes(a.parameter, rest)

\* <Parameter as Parse>::parse
parse(ts) ==
    LET n == parse_name(ts)
    IN  IF n.tag # "Ok" THEN n
        ELSE LET c == parse_comma(n.parameter, n.rest)
             IN  IF c.tag # "Ok" THEN c
                 ELSE parse_attributes(c.parameter, c.rest)

Call(call, str, flag) == [call |-> call, str |-> str, flag |-> flag]

\* faulty variant of to_tokens_schema: required follows the optional flag
to_tokens_schema_not_negated(parameter_type) ==
    IF parameter_type.some
    THEN << Call("with_schema", parameter_type.ty, parameter_type.is_array),
            Call("with_required", "", parameter_type.is_option) >>
    ELSE <<>>

\* to_tokens, the schema and the required flag
to_tokens_schema(parameter_type) ==
    IF parameter_type.some
    THEN << Call("with_schema", parameter_type.ty, parameter_type.is_array),
            Call("with_required", "", ~parameter_type.is_option) >>
    ELSE <<>>

\* <Parameter as ToTokens>::to_tokens
to_tokens(self) ==
    << Call("new", self.name, FALSE),
       Call("with_in", self.parameter_in, FALSE),
       Call("with_deprecated", "", self.deprecated) >>
    \o (IF self.description.some
        THEN << Call("with_description", self.description.val, FALSE) >>
        ELSE <<>>)
    \o to_tokens_schema(self.parameter_type)

(***************************************************************************)
(* Inputs                                                                  *)
(***************************************************************************)
NoEnv == [set |-> FALSE, val |-> Str0]
SetEnv(dir) == [set |-> TRUE, val |-> dir]

RECURSIVE Spaces(_)
Spaces(n) == IF n = 0 THEN <<>> ELSE <<" ">> \o Spaces(n - 1)

Bodies == { <<>>, <<"a">>, <<"a"," ">>, <<"\t","a","\n">> }

LiteralTexts == {Spaces(n) \o b : n \in 0..MaxIndent, b \in Bodies}

Frags == StringsUpTo({"/", "a"}, MaxFrag)

\* concat!(env!("CARGO_MANIFEST_DIR"), "<frag>")
Wrap(f) == CONCAT_BANG \o <<"(">> \o ENV_DQ \o <<",", " ">> \o Quoted(f) \o <<")">>
\* concat!(env!('CARGO_MANIFEST_DIR'), "<frag>")
WrapSQ(f) == CONCAT_BANG \o <<"(">> \o ENV_SQ \o <<",", " ">> \o Quoted(f) \o <<")">>
\* concat ! (env ! ("CARGO_MANIFEST_DIR") , "<frag>"), tokens printed with spaces
WrapSpaced(f) ==
    <<"c","o","n","c","a","t"," ","!"," ","(","e","n","v"," ","!"," ","(">>
        \o Quoted(CARGO_MANIFEST_DIR) \o <<")", " ", ",", " ">> \o Quoted(f) \o <<")">>

\* #[doc = "text"]
DocLit(text) ==
    [path |-> "doc", meta |-> "NameValue", expr |-> "Lit", lit |-> "Str",
     mac |-> "", str |-> text]
\* #[doc = include_str!(tokens)]
DocInclude(tokens) ==
    [path |-> "doc", meta |-> "NameValue", expr |-> "Macro", lit |-> "",
     mac |-> "include_str", str |-> tokens]
\* #[derive(x)], #[doc(hidden)], #[doc = 1], #[doc = concat!(a)]
OtherAttrs ==
    { [path |-> "derive", meta |-> "List", expr |-> "", lit |-> "", mac |-> "", str |-> Str0],
      [path |-> "doc", meta |-> "List", expr |-> "", lit |-> "", mac |-> "", str |-> Str0],
      [path |-> "doc", meta |-> "NameValue", expr |-> "Lit", lit |-> "Int",
       mac |-> "", str |-> <<"1">>],
      [path |-> "doc", meta |-> "NameValue", expr |-> "Macro", lit |-> "",
       mac |-> "concat", str |-> <<"a">>] }

IncludeAttrs ==
    { DocInclude(Quoted(<<"a">>)), DocInclude(Wrap(<<"/","a">>)),
      DocInclude(Quoted(<<"z">>)) }

Attrs == {DocLit(t) : t \in LiteralTexts} \cup IncludeAttrs \cup OtherAttrs

IncludeInputs ==
    {Wrap(f) : f \in Frags} \cup {WrapSQ(f) : f \in Frags}
        \cup {WrapSpaced(f) : f \in Frags} \cup {Quoted(f) : f \in Frags}
        \cup {<<" ">> \o Wrap(f) \o <<" ">> : f \in Frags}

Envs == {NoEnv, SetEnv(<<"/","r">>), SetEnv(<<"/","r","/">>)}

NoComments == [tag |-> "None", docs |-> <<>>]
NoFormatted == [tag |-> "None", empty |-> FALSE, str |-> Str0]
NoIncluded == [tag |-> "None", val |-> Str0, reads |-> <<>>, msg |-> ""]

Locations == {"path", "query", "header", "cookie"}

\* the attributes of the grammar
ValidUnits ==
    {<<IdentTok(l)>> : l \in Locations}
        \cup { <<IdentTok("deprecated")>>,
               <<IdentTok("deprecated"), EqTok, LitBoolTok("true")>>,
               <<IdentTok("deprecated"), EqTok, LitBoolTok("false")>>,
               <<IdentTok("description"), EqTok, LitStrTok("d")>> }

UnknownUnit(x) == <<IdentTok(x)>>

Units == ValidUnits \cup {UnknownUnit("unknown_attr")}

MalformedUnits ==
    { UnknownUnit("String"), <<IdentTok("description")>>,
      <<IdentTok("description"), EqTok>>,
      <<IdentTok("deprecated"), EqTok, IdentTok("yes")>>, <<LitBoolTok("true")>> }

CanonicalName == <<LitStrTok("id")>>

ValidNames ==
    { CanonicalName, <<LitStrTok("")>>,
      <<LitStrTok("id"), EqTok, IdentTok("String")>>,
      <<LitStrTok("id"), EqTok, GroupTok("String")>> }

Names ==
    ValidNames \cup { <<>>, <<IdentTok("id")>>, <<LitStrTok("id"), EqTok, LitStrTok("x")>> }

\* c is a clause of up to n attributes, each attribute followed by a comma or not
IsClause(c, names, commas, units, n) ==
    \E nm \in names, cm \in commas, k \in 0..n :
        \E us \in [1..k -> units], ss \in [1..k -> BOOLEAN] :
            c = [name |-> nm, comma |-> cm, attrs |-> us, seps |-> ss]

NoClause == [name |-> <<>>, comma |-> FALSE, attrs |-> <<>>, seps |-> <<>>]

RECURSIVE FlattenAttrs(_, _)
FlattenAttrs(us, ss) ==
    IF us = <<>> THEN <<>>
    ELSE Head(us) \o (IF Head(ss) THEN <<CommaTok>> ELSE <<>>)
             \o FlattenAttrs(Tail(us), Tail(ss))

\* the token stream of a clause
Flatten(c) ==
    c.name \o (IF c.comma THEN <<CommaTok>> ELSE <<>>) \o FlattenAttrs(c.attrs, c.seps)

\* the results of Type::new that reach Parameter::new and update_parameter_type
NewTypes == {SomeType("i32", FALSE, o) : o \in BOOLEAN}

NotParsed ==
    [tag |-> "None", parameter |-> Parameter_default, rest |-> <<>>, msg |-> "",
     ident |-> "", expected |-> <<>>]
NoParameter == [some |-> FALSE, val |-> Parameter_default, by |-> "none"]
SomeParameter(p, by) == [some |-> TRUE, val |-> p, by |-> by]

(***************************************************************************)
(* Doc extractor: from_attributes, then is_empty / as_formatted_string     *)
(***************************************************************************)
InitDoc ==
    /\ \E k \in 0..MaxLines : attributes \in [1..k -> Attrs]
    /\ manifest_dir \in {NoEnv, SetEnv(<<"/","r">>)}
    /\ comments = NoComments
    /\ formatted = NoFormatted
    /\ path_str = Str0
    /\ included = NoIncluded
    /\ clause = NoClause
    /\ input = <<>>
    /\ parsed = NotParsed
    /\ parameter = NoParameter
    /\ rendered = <<>>

FromAttributes ==
    /\ comments.tag = "None"
    /\ comments' = from_attributes(attributes, manifest_dir)
    /\ UNCHANGED <<attributes, formatted, path_str, manifest_dir, included,
                   clause, input, parsed, parameter, rendered>>

AsFormattedString ==
    /\ comments.tag = "Ok"
    /\ formatted.tag = "None"
    /\ formatted' = [tag |-> "Formatted", empty |-> is_empty(comments.docs),
                     str |-> as_formatted_string(comments.docs)]
    /\ UNCHANGED <<attributes, comments, path_str, manifest_dir, included,
                   clause, input, parsed, parameter, rendered>>

NextDoc == FromAttributes \/ AsFormattedString

SpecDoc == InitDoc /\ [][NextDoc]_vars

(***************************************************************************)
(* Include evaluation: evaluate_include_str on one expression              *)
(***************************************************************************)
InitInclude ==
    /\ path_str \in IncludeInputs
    /\ manifest_dir \in Envs
    /\ included = NoIncluded
    /\ attributes = <<>>
    /\ comments = NoComments
    /\ formatted = NoFormatted
    /\ clause = NoClause
    /\ input = <<>>
    /\ parsed = NotParsed
    /\ parameter = NoParameter
    /\ rendered = <<>>

EvaluateIncludeStr ==
    /\ included.tag = "None"
    /\ included' = evaluate_include_str(path_str, manifest_dir)
    /\ UNCHANGED <<attributes, comments, formatted, path_str, manifest_dir,
                   clause, input, parsed, parameter, rendered>>

NextInclude == EvaluateIncludeStr

SpecInclude == InitInclude /\ [][NextInclude]_vars

(***************************************************************************)
(* Clause parser: parse or new, then update_parameter_type, then to_tokens *)
(***************************************************************************)
InitParam ==
    /\ \/ IsClause(clause, {CanonicalName}, {TRUE}, Units, MaxAttrs)
       \/ IsClause(clause, Names, BOOLEAN, Units \cup MalformedUnits, MaxNameAttrs)
    /\ input = Flatten(clause)
    /\ parsed = NotParsed
    /\ parameter = NoParameter
    /\ rendered = <<>>
    /\ attributes = <<>>
    /\ comments = NoComments
    /\ formatted = NoFormatted
    /\ path_str = Str0
    /\ manifest_dir = NoEnv
    /\ included = NoIncluded

DocUnchanged == UNCHANGED <<attributes, comments, formatted, path_str, manifest_dir, included>>

Parse ==
    /\ parsed.tag = "None"
    /\ ~parameter.some
    /\ parsed' = parse(input)
    /\ parameter' = IF parsed'.tag = "Ok" THEN SomeParameter(parsed'.parameter, "parse")
                    ELSE NoParameter
    /\ UNCHANGED <<clause, input, rendered>>
    /\ DocUnchanged

\* the caller knows the type and has no clause to parse
New ==
    /\ parsed.tag = "None"
    /\ ~parameter.some
    /\ input = <<>>
    /\ \E name \in {"id", ""}, ty \in NewTypes,
          parameter_in \in {"Path", "Query", "Header", "Cookie"} :
          parameter' = SomeParameter(Parameter_new(name, ty, parameter_in), "new")
    /\ UNCHANGED <<clause, input, parsed, rendered>>
    /\ DocUnchanged

UpdateParameterType ==
    /\ parameter.some
    /\ rendered = <<>>
    /\ \E ty \in NewTypes :
          parameter' = [parameter EXCEPT !.val = update_parameter_type(parameter.val, ty)]
    /\ UNCHANGED <<clause, input, parsed, rendered>>
    /\ DocUnchanged

ToTokens ==
    /\ parameter.some
    /\ rendered = <<>>
    /\ rendered' = to_tokens(parameter.val)
    /\ UNCHANGED <<clause, input, parsed, parameter>>
    /\ DocUnchanged

NextParam == Parse \/ New \/ UpdateParameterType \/ ToTokens

SpecParam == InitParam /\ [][NextParam]_vars

(***************************************************************************)
(* Properties of the doc extractor                                         *)
(***************************************************************************)
IsLiteral(attr) == attr.path = "doc" /\ attr.meta = "NameValue" /\ attr.expr = "Lit"
                       /\ attr.lit = "Str"
IsFileInclude(attr) == attr.path = "doc" /\ attr.meta = "NameValue" /\ attr.expr = "Macro"
                           /\ attr.mac = "include_str"

AllLiteral == attributes # <<>> /\ \A i \in DOMAIN attributes : IsLiteral(attributes[i])

EndsWithWhitespace(s) == s # <<>> /\ s[Len(s)] \in Whitespace

\* s without its trailing whitespace: the longest prefix that does not end in whitespace
WithoutTrailingWhitespace(s) ==
    LET n == CHOOSE k \in 0..Len(s) :
                 /\ \A j \in (k + 1)..Len(s) : s[j] \in Whitespace
                 /\ (k > 0 => s[k] \notin Whitespace)
    IN  SubSeq(s, 1, n)

\* the number of spaces s starts with
LeadingSpaceCount(s) ==
    CHOOSE k \in 0..Len(s) :
        /\ \A j \in 1..k : s[j] = " "
        /\ (k < Len(s) => s[k + 1] # " ")

TrimmedLines == [i \in DOMAIN attributes |-> WithoutTrailingWhitespace(attributes[i].str)]

\* w: the least number of leading spaces over the non-empty trimmed lines, 0 if none
CommonIndent ==
    LET nonEmpty == {i \in DOMAIN attributes : TrimmedLines[i] # <<>>}
    IN  IF nonEmpty = {} THEN 0
        ELSE CHOOSE w \in 0..(MaxIndent + 4) :
                 /\ \A i \in nonEmpty : LeadingSpaceCount(TrimmedLines[i]) >= w
                 /\ \E i \in nonEmpty : LeadingSpaceCount(TrimmedLines[i]) = w

\* C1: on a non-empty sequence of literal lines from_attributes returns a sequence of
\* the same length and order; every non-empty (trimmed) line has lost exactly its first
\* w characters, all spaces, w being the least number of leading spaces over the
\* non-empty lines; every empty line stays empty; with w = 0 the lines come back
\* unchanged apart from the trailing-whitespace trimming.
C1_CommonIndentStripped ==
    (AllLiteral /\ comments.tag # "None") =>
        /\ comments.tag = "Ok"
        /\ Len(comments.docs) = Len(attributes)
        /\ \A i \in DOMAIN attributes :
              IF TrimmedLines[i] = <<>>
              THEN comments.docs[i] = <<>>
              ELSE Spaces(CommonIndent) \o comments.docs[i] = TrimmedLines[i]
        /\ (CommonIndent = 0 => comments.docs = TrimmedLines)

C1_Witness ==
    /\ AllLiteral
    /\ comments.tag = "Ok"
    /\ attributes = << DocLit(<<" ", " ", "a">>), DocLit(<<" ">>), DocLit(<<" ", "a", " ">>) >>
    /\ CommonIndent = 1
    /\ comments.docs = << <<" ", "a">>, <<>>, <<"a">> >>

AllLiteralOrInclude ==
    attributes # <<>> /\
    \A i \in DOMAIN attributes : IsLiteral(attributes[i]) \/ IsFileInclude(attributes[i])

\* C2 as stated: no stored element ends with a whitespace character, whether it comes
\* from a Literal or from a FileInclude whose file was read.
C2_NoTrailingWhitespace ==
    (AllLiteralOrInclude /\ comments.tag = "Ok") =>
        \A i \in DOMAIN comments.docs : ~EndsWithWhitespace(comments.docs[i])

\* C2 amended: no element stored for a Literal ends with a whitespace character; the
\* element stored for a FileInclude is the file's contents as read, trailing
\* whitespace included, less the leading spaces removed as common indentation.
C2_LiteralsTrimmed ==
    (AllLiteralOrInclude /\ comments.tag = "Ok") =>
        /\ Len(comments.docs) = Len(attributes)
        /\ \A i \in DOMAIN attributes :
              IF IsLiteral(attributes[i])
              THEN ~EndsWithWhitespace(comments.docs[i])
              ELSE \E n \in 0..Len(evaluate_include_str(attributes[i].str, manifest_dir).val) :
                       Spaces(n) \o comments.docs[i] =
                           evaluate_include_str(attributes[i].str, manifest_dir).val

C2_Witness ==
    /\ comments.tag = "Ok"
    /\ Len(attributes) = 2
    /\ IsLiteral(attributes[1])
    /\ EndsWithWhitespace(attributes[1].str)
    /\ comments.docs[1] = <<"a">>
    /\ IsFileInclude(attributes[2])
    /\ EndsWithWhitespace(comments.docs[2])

(***************************************************************************)
(* Properties of the include evaluation                                    *)
(***************************************************************************)
RECURSIVE WithoutLeadingSeparators(_)
WithoutLeadingSeparators(f) ==
    IF f # <<>> /\ f[1] = "/" THEN WithoutLeadingSeparators(SubSeq(f, 2, Len(f))) ELSE f

WithoutOneLeadingSeparator(f) ==
    IF f # <<>> /\ f[1] = "/" THEN SubSeq(f, 2, Len(f)) ELSE f

UnsetPanics == included.tag = "Panic" /\ included.reads = <<>>

Keywords == {"path", "query", "header", "cookie", "deprecated", "description"}

IsLocationUnit(u) ==
    Len(u) = 1 /\ u[1].k = "Ident" /\ u[1].v \in {"path", "query", "header", "cookie"}

IsDeprecatedUnit(u) == u # <<>> /\ u[1] = IdentTok("deprecated")

IsUnknownUnit(u) == Len(u) = 1 /\ u[1].k = "Ident" /\ u[1].v \notin Keywords

LocationNamed(kw) ==
    CASE kw = "path" -> "Path"
      [] kw = "query" -> "Query"
      [] kw = "header" -> "Header"
      [] kw = "cookie" -> "Cookie"

\* the greatest index of S, a non-empty set of indices
Last(S) == CHOOSE i \in S : \A j \in S : j <= i

ValidClause ==
    /\ clause.name \in ValidNames
    /\ clause.comma
    /\ clause.attrs # <<>>
    /\ \A i \in DOMAIN clause.attrs : clause.attrs[i] \in ValidUnits

\* C3 as stated: a successful parse yields a non-empty name.
C3_NameNonEmpty == parsed.tag = "Ok" => parsed.parameter.name # ""

\* C3 amended: a successful parse yields as name the value of the string literal the
\* clause starts with, which is empty when that literal is the empty string.
C3_NameIsLiteral ==
    parsed.tag = "Ok" =>
        /\ input # <<>>
        /\ input[1].k = "LitStr"
        /\ parsed.parameter.name = input[1].v
        /\ parameter.some

C3_Witness ==
    /\ parsed.tag = "Ok"
    /\ input[1] = LitStrTok("")
    /\ parsed.parameter.name = ""

\* C4: after a successful parse parameter_in is the location named by the last
\* location keyword of the attribute list, whatever else the list holds, and Path
\* when the list holds no location keyword.
C4_LastLocationWins ==
    parsed.tag = "Ok" =>
        LET locs == {i \in DOMAIN clause.attrs : IsLocationUnit(clause.attrs[i])}
        IN  IF locs = {} THEN parsed.parameter.parameter_in = "Path"
            ELSE parsed.parameter.parameter_in = LocationNamed(clause.attrs[Last(locs)][1].v)

C4_Witness ==
    /\ parsed.tag = "Ok"
    /\ clause.attrs = << <<IdentTok("query")>>, <<IdentTok("deprecated")>>,
                         <<IdentTok("cookie")>> >>
    /\ parsed.parameter.parameter_in = "Cookie"

\* C5: after a successful parse deprecated is false when the list holds no
\* `deprecated`, true when the last `deprecated` is bare, and b when the last one is
\* written `deprecated = b`.
C5_DeprecatedFlag ==
    parsed.tag = "Ok" =>
        LET deps == {i \in DOMAIN clause.attrs : IsDeprecatedUnit(clause.attrs[i])}
        IN  IF deps = {} THEN parsed.parameter.deprecated = FALSE
            ELSE LET u == clause.attrs[Last(deps)]
                 IN  IF Len(u) = 1 THEN parsed.parameter.deprecated = TRUE
                     ELSE parsed.parameter.deprecated = (u[3] = LitBoolTok("true"))

C5_Witness ==
    /\ parsed.tag = "Ok"
    /\ clause.attrs = << <<IdentTok("deprecated")>>, <<IdentTok("path")>>,
                         <<IdentTok("deprecated"), EqTok, LitBoolTok("false")>> >>
    /\ parsed.parameter.deprecated = FALSE

\* C6: with a valid name part and its comma, an identifier in attribute position
\* that is no keyword makes parse fail with a syntax error that names it and lists
\* the keywords, and no Parameter is produced, however many valid attributes precede it.
C6_UnknownIdentifierRejected ==
    \A i \in DOMAIN clause.attrs :
        ( /\ parsed.tag # "None"
          /\ clause.name \in ValidNames
          /\ clause.comma
          /\ IsUnknownUnit(clause.attrs[i])
          /\ \A j \in 1..(i - 1) : clause.attrs[j] \in ValidUnits ) =>
            /\ parsed.tag = "Err"
            /\ parsed.msg = "unexpected identifier"
            /\ parsed.ident = clause.attrs[i][1].v
            /\ parsed.expected =
                   <<"path", "query", "header", "cookie", "deprecated", "description">>
            /\ ~parameter.some

C6_Witness ==
    /\ parsed.tag = "Err"
    /\ clause.attrs = << <<IdentTok("path")>>, <<IdentTok("deprecated")>>,
                         <<IdentTok("unknown_attr")>> >>
    /\ parsed.ident = "unknown_attr"
    /\ ~parameter.some

\* C7: a name part that is not followed by a comma, be it followed by an attribute
\* or by the end of the input, makes parse fail fatally, and no Parameter is produced.
C7_CommaAfterNameRequired ==
    (parsed.tag # "None" /\ clause.name \in ValidNames /\ ~clause.comma) =>
        /\ parsed.tag = "Abort"
        /\ parsed.msg = "expected comma after literal string"
        /\ ~parameter.some

C7_Witness ==
    /\ parsed.tag = "Abort"
    /\ clause.name = <<LitStrTok("id")>>
    /\ ~clause.comma
    /\ clause.attrs = << <<IdentTok("path")>> >>
    /\ ~parameter.some

\* C9: to_tokens emits, in this order, new(name), with_in, with_deprecated (always),
\* with_description only if there is a description, and with_schema then
\* with_required only if there is a type, required being the negation of the type's
\* optional flag; a Parameter made by Parameter::new renders deprecated = false, no
\* description, and a schema with required = not optional.
C9_RenderedCalls ==
    rendered # <<>> =>
        LET p == parameter.val
            d == IF p.description.some THEN 1 ELSE 0
            t == IF p.parameter_type.some THEN 2 ELSE 0
        IN  /\ Len(rendered) = 3 + d + t
            /\ rendered[1].call = "new" /\ rendered[1].str = p.name
            /\ rendered[2].call = "with_in" /\ rendered[2].str = p.parameter_in
            /\ rendered[3].call = "with_deprecated" /\ rendered[3].flag = p.deprecated
            /\ (d = 1 => /\ rendered[4].call = "with_description"
                         /\ rendered[4].str = p.description.val)
            /\ (t = 2 => /\ rendered[4 + d].call = "with_schema"
                         /\ rendered[4 + d].str = p.parameter_type.ty
                         /\ rendered[5 + d].call = "with_required"
                         /\ rendered[5 + d].flag = ~p.parameter_type.is_option)
            /\ (parameter.by = "new" =>
                    /\ Len(rendered) = 5
                    /\ rendered[3].flag = FALSE
                    /\ rendered[5].call = "with_required")

C9_Witness ==
    /\ parameter.by = "new"
    /\ parameter.val.parameter_type.is_option
    /\ parameter.val.parameter_in = "Header"
    /\ rendered = << Call("new", "id", FALSE), Call("with_in", "Header", FALSE),
                     Call("with_deprecated", "", FALSE), Call("with_schema", "i32", FALSE),
                     Call("with_required", "", FALSE) >>

\* C10: a clause of a valid name part, its comma and a non-empty list of valid
\* attributes parses successfully, and to the same result whichever of its attributes
\* are followed by a comma, the last one included.
C10_CommasOptional ==
    (parsed.tag # "None" /\ ValidClause) =>
        /\ parsed.tag = "Ok"
        /\ \A ss \in [DOMAIN clause.attrs -> BOOLEAN] :
               parse(Flatten([clause EXCEPT !.seps = ss])) = parsed

C10_Witness ==
    /\ parsed.tag = "Ok"
    /\ clause.attrs = << <<IdentTok("deprecated")>>, <<IdentTok("query")>>,
                         <<IdentTok("description"), EqTok, LitStrTok("d")>> >>
    /\ clause.seps = <<FALSE, FALSE, FALSE>>
    /\ parsed.parameter.deprecated
    /\ parsed.parameter.parameter_in = "Query"
    /\ parsed.parameter.description = SomeString("d")

====
